---- MODULE Spec2Model ----
(***************************************************************************)
(* A model of tap-updater.py and xorg-updater.py: the resolver, the        *)
(* dependency expander, the update detector with its version-stability     *)
(* policy, and the greedy batch scheduler.  Strings are TLA+ strings and   *)
(* the Python string methods the scripts use are operators over them.      *)
(***************************************************************************)
EXTENDS Integers, Sequences, FiniteSets, TLC

(***************************************************************************)
(* Python built-ins used by the scripts.                                   *)
(***************************************************************************)
SetMin(S) == CHOOSE x \in S : \A y \in S : x <= y
SetMax(S) == CHOOSE x \in S : \A y \in S : x >= y
MinOrZero(S) == IF S = {} THEN 0 ELSE SetMin(S)
MaxOrZero(S) == IF S = {} THEN 0 ELSE SetMax(S)

\* the 1-based places where sub occurs in s
Occurrences(s, sub) ==
  {j \in 1..(Len(s) - Len(sub) + 1) : SubSeq(s, j, j + Len(sub) - 1) = sub}

\* s.find(sub) + 1: the place of the first occurrence, 0 when none
StrFind(s, sub) == MinOrZero(Occurrences(s, sub))

\* sub in s
StrIn(sub, s) == StrFind(s, sub) # 0

\* s.startswith(p)
StartsWith(s, p) == Len(p) <= Len(s) /\ SubSeq(s, 1, Len(p)) = p

\* s.split(sep)
RECURSIVE StrSplit(_, _)
SplitAt(s, sep, j) ==
  IF j = 0 THEN <<s>>
  ELSE <<SubSeq(s, 1, j - 1)>> \o StrSplit(SubSeq(s, j + Len(sep), Len(s)), sep)
StrSplit(s, sep) == SplitAt(s, sep, StrFind(s, sep))

\* s.count(sub): non-overlapping occurrences, left to right
RECURSIVE StrCount(_, _)
CountAt(s, sub, j) ==
  IF j = 0 THEN 0 ELSE 1 + StrCount(SubSeq(s, j + Len(sub), Len(s)), sub)
StrCount(s, sub) == CountAt(s, sub, StrFind(s, sub))

\* c.isspace() for a character of str.strip() and str.split(): the ASCII
\* whitespace that a TLA+ string can hold (\x0b and \x1c-\x1f have no
\* escape)
IsSpace(c) == c \in {" ", "\t", "\n", "\r", "\f"}

\* s.strip()
StripTo(s, I) == IF I = {} THEN "" ELSE SubSeq(s, SetMin(I), SetMax(I))
StrStrip(s) == StripTo(s, {i \in 1..Len(s) : ~IsSpace(SubSeq(s, i, i))})

\* s.split(): the whitespace-separated words of s
RECURSIVE WordsFrom(_, _, _)
WordsFrom(s, i, word) ==
  IF i > Len(s) THEN (IF word = "" THEN <<>> ELSE <<word>>)
  ELSE IF IsSpace(SubSeq(s, i, i))
  THEN (IF word = "" THEN <<>> ELSE <<word>>) \o WordsFrom(s, i + 1, "")
  ELSE WordsFrom(s, i + 1, word \o SubSeq(s, i, i))
StrWords(s) == WordsFrom(s, 1, "")

Digits == {"0", "1", "2", "3", "4", "5", "6", "7", "8", "9"}

\* s.isdigit()
IsDigit(s) == Len(s) > 0 /\ \A i \in 1..Len(s) : SubSeq(s, i, i) \in Digits

\* s.replace(old, new)
RECURSIVE StrReplace(_, _, _)
ReplaceAt(s, old, new, j) ==
  IF j = 0 THEN s
  ELSE SubSeq(s, 1, j - 1) \o new \o StrReplace(SubSeq(s, j + Len(old), Len(s)), old, new)
StrReplace(s, old, new) == ReplaceAt(s, old, new, StrFind(s, old))

\* sep.join(parts)
RECURSIVE StrJoin(_, _)
StrJoin(sep, parts) ==
  IF parts = <<>> THEN ""
  ELSE IF Len(parts) = 1 THEN parts[1]
  ELSE parts[1] \o sep \o StrJoin(sep, Tail(parts))

\* s.rsplit(sep, 1)[0]
HeadBefore(s, j) == IF j = 0 THEN s ELSE SubSeq(s, 1, j - 1)
RSplitHead(s, sep) == HeadBefore(s, MaxOrZero(Occurrences(s, sep)))

\* lst[-1]
LastOf(lst) == lst[Len(lst)]

\* s.split(sep)[-1]
SplitLast(s, sep) == LastOf(StrSplit(s, sep))

\* x in lst, for a list
InList(x, lst) == \E i \in 1..Len(lst) : lst[i] = x

\* the elements of a list, as a set
ListSet(lst) == {lst[i] : i \in 1..Len(lst)}

\* the root of a POSIX path: exactly two leading slashes are kept, any
\* other number of them is one
PathRoot(s) ==
  IF StartsWith(s, "//") /\ ~StartsWith(s, "///") THEN <<"//">>
  ELSE IF StartsWith(s, "/") THEN <<"/">>
  ELSE <<>>

\* pathlib.Path(s).parts of a POSIX path
PathParts(s) ==
  PathRoot(s) \o SelectSeq(StrSplit(s, "/"), LAMBDA c : c # "" /\ c # ".")

\* str(pathlib.Path(s)): the parts joined again, "." when there is none
PathStr(s) ==
  IF PathParts(s) = <<>> THEN "."
  ELSE IF PathParts(s)[1] \in {"/", "//"}
  THEN PathParts(s)[1] \o StrJoin("/", Tail(PathParts(s)))
  ELSE StrJoin("/", PathParts(s))

\* pathlib.Path(s).name, from the parts
PartsName(parts) ==
  IF parts = <<>> \/ LastOf(parts) \in {"/", "//"} THEN "" ELSE LastOf(parts)

\* the stem of a file name: what precedes its last ".", unless that is its
\* first or its last character
StemAt(name, i) == IF 1 < i /\ i < Len(name) THEN SubSeq(name, 1, i - 1) ELSE name
NameStem(name) == StemAt(name, MaxOrZero(Occurrences(name, ".")))

\* pathlib.Path(s).stem
PathStem(s) == NameStem(PartsName(PathParts(s)))

\* seq[-4:-2]
SliceFrom(seq, n) ==
  SubSeq(seq, (IF n - 4 > 0 THEN n - 4 ELSE 0) + 1, IF n - 2 > 0 THEN n - 2 ELSE 0)
SliceM4M2(seq) == SliceFrom(seq, Len(seq))

(***************************************************************************)
(* The Homebrew installation the scripts query: two taps whose names share *)
(* a prefix, a tap whose folder is gone, and the core tap.                 *)
(***************************************************************************)
\* stdout of `brew tap`
BrewTapStdout == "user/tap\nuser/tap-extra\nuser/gone\n"

\* every formula of the installation: full name and description file
WorldFormulae ==
  { [name |-> "user/tap/a",       file |-> "/h/Taps/user/homebrew-tap/Formula/a.rb"],
    [name |-> "user/tap/b",       file |-> "/h/Taps/user/homebrew-tap/Formula/b.rb"],
    [name |-> "user/tap/c",       file |-> "/h/Taps/user/homebrew-tap/Formula/c.rb"],
    [name |-> "user/tap-extra/e", file |-> "/h/Taps/user/homebrew-tap-extra/Formula/e.rb"],
    [name |-> "homebrew/core/d",  file |-> "/h/Taps/homebrew/homebrew-core/Formula/d.rb"] }

\* the folders on disk
WorldFolders ==
  {"/h/Taps/user/homebrew-tap", "/h/Taps/user/homebrew-tap-extra",
   "/h/Taps/homebrew/homebrew-core"}

\* the .rb files on disk that `brew info` takes for a formula: those of
\* WorldFormulae and two second copies in a HomebrewFormula folder
WorldFormulaFiles ==
  {f.file : f \in WorldFormulae}
    \cup {"/h/Taps/user/homebrew-tap/HomebrewFormula/c.rb",
          "/h/Taps/user/homebrew-tap-extra/HomebrewFormula/e.rb"}

\* every .rb file on disk: the formulae, and one file that is no formula
WorldFiles == WorldFormulaFiles \cup {"/h/Taps/user/homebrew-tap/HomebrewFormula/notes.rb"}

\* subprocess.run(["brew", "formula", element]): a known formula is found by
\* its full name or by its bare name, anything else is an error
FormulaFound(M) ==
  IF M = {}
  THEN [returncode |-> 1, stdout |-> "",
        stderr |-> "Error: No available formula with the name\n"]
  ELSE [returncode |-> 0, stdout |-> (CHOOSE f \in M : TRUE).file \o "\n", stderr |-> ""]
BrewFormula(element) ==
  FormulaFound({f \in WorldFormulae :
                  element = f.name \/ element = SplitLast(f.name, "/")})

\* subprocess.run(["brew", "--repo", tap_name])
RepoOf(p) ==
  [returncode |-> 0, stderr |-> "",
   stdout |-> "/h/Taps/" \o p[1] \o "/homebrew-" \o LastOf(p) \o "\n"]
BrewRepo(tap_name) == RepoOf(StrSplit(tap_name, "/"))

\* subprocess.run(["brew", "info", file]) in tap_folder: the return code
BrewInfo(tap_folder, file) ==
  IF (tap_folder \o "/" \o file) \in WorldFormulaFiles THEN 0 ELSE 1

\* KNOWN_TAPS = process.stdout.decode("ascii").split()
KNOWN_TAPS == StrWords(BrewTapStdout)

\* tap_location(tap_name), for a tap name with one "/"
tap_location(tap_name) == StrStrip(BrewRepo(tap_name).stdout)

\* the lists that hold every element of S once: the orders in which a
\* directory listing, or list(set), may give them
Orders(S) ==
  {p \in [1..Cardinality(S) -> S] : \A i, j \in DOMAIN p : p[i] = p[j] => i = j}

\* glob.glob(os.path.join(subfolder, "*.rb")) in tap_folder: the files of
\* the subfolder, relative to tap_folder, in the order the directory gives
GlobFiles(tap_folder, subfolder) ==
  { SubSeq(f, Len(tap_folder) + 2, Len(f)) :
      f \in {g \in WorldFiles : StartsWith(g, tap_folder \o "/" \o subfolder \o "/")} }
Glob(tap_folder, subfolder) == Orders(GlobFiles(tap_folder, subfolder))

\* lines 207-210: Formula, then HomebrewFormula; os.path.exists("") is
\* false, so the tap folder itself is never searched
Collected(tap_folder) ==
  {p \o q : p \in Glob(tap_folder, "Formula"), q \in Glob(tap_folder, "HomebrewFormula")}

\* lines 214-218: the files `brew info` fails for
NotFormulae(tap_folder, rbfiles) ==
  {rbfiles[i] : i \in {j \in 1..Len(rbfiles) : BrewInfo(tap_folder, rbfiles[j]) # 0}}

\* lines 220-223: list(set(rbfiles).difference(not_formulae)), in any order
Filtered(rbfiles, not_formulae) ==
  IF not_formulae = {} THEN {rbfiles} ELSE Orders(ListSet(rbfiles) \ not_formulae)

\* lines 201-205: os.chdir(tap_folder) fails and the run ends with code 1
ChdirFails(tap_folder) == tap_folder \notin WorldFolders

\* find_formulae_files(tap_folder), for a folder that exists: the lists of
\* .rb files, relative to it, that the call may return
find_formulae_files(tap_folder) ==
  UNION {Filtered(r, NotFormulae(tap_folder, r)) : r \in Collected(tap_folder)}

\* os.path.join(a, b) for a relative b
PathJoin(a, b) ==
  IF a = "" \/ SubSeq(a, Len(a), Len(a)) = "/" THEN a \o b ELSE a \o "/" \o b

\* lines 240-246: full formula name -> file; of two files with one stem the
\* later in the list stays
FullName(tap_name, rbfile) == tap_name \o "/" \o PathStem(rbfile)
TapDict(tap_name, tap_folder, rbfiles) ==
  [n \in {FullName(tap_name, rbfiles[i]) : i \in 1..Len(rbfiles)} |->
     PathJoin(tap_folder,
              rbfiles[SetMax({i \in 1..Len(rbfiles) : FullName(tap_name, rbfiles[i]) = n})])]
TapFiles(tap_name, tap_folder) ==
  {TapDict(tap_name, tap_folder, rbfiles) : rbfiles \in find_formulae_files(tap_folder)}

EmptyDict == [k \in {} |-> ""]

\* process_tap(tap_name): the run ends with code 1 in find_formulae_files
\* (lines 203-205) when the folder of the tap is not there; otherwise the
\* dictionaries the call may return
process_tap(tap_name) ==
  IF ChdirFails(tap_location(tap_name)) THEN {[fail |-> 1, files |-> EmptyDict]}
  ELSE {[fail |-> 0, files |-> d] : d \in TapFiles(tap_name, tap_location(tap_name))}

\* dict update {**d, **e}
DictMerge(d, e) ==
  [k \in DOMAIN d \cup DOMAIN e |-> IF k \in DOMAIN e THEN e[k] ELSE d[k]]

\* d[k] = v
DictSet(d, k, v) == [j \in DOMAIN d \cup {k} |-> IF j = k THEN v ELSE d[j]]


(***************************************************************************)
(* State.                                                                  *)
(***************************************************************************)
VARIABLES
  args,            \* the parsed command line: taps_or_formulae, skip, all, raw_versions
  pc,              \* where the script is
  exit_code,       \* {} while running, {n} once the script has exited with n
  SKIP_TAPS, SKIP_FORMULAE,
  idx,             \* position of the resolver loop in args.taps_or_formulae
  formulae,        \* the working set
  formula_file,    \* full name -> description file
  TAP_NAME,        \* {} for None, else {tap name}
  extra_formulae,  \* dependencies found by the expander
  checked,         \* formulae the detector loop has finished with
  formula,         \* the detector loop's variable (the report loop of line 493, which
                   \* uses the name again, is not followed)
  livecheck_stdout,\* formula -> the stripped output `brew livecheck` gave for it
  failed_calls,    \* external commands of the detector that returned an error
  in_flight,       \* the formulae named in an "I was processing" message
  warned,          \* formulae the detector logged a warning about
  deps,            \* formula -> its dependencies, as the detector leaves it (line
                   \* 479, which uses the name again, is not followed)
  old_versions, new_versions,
  old_versions_keys, \* insertion order of the dict old_versions
  outdated,        \* xorg-updater: formula -> <<old, new>>
  sorted_outdated_deps,
  batches,         \* batch index -> list of formulae
  previous,
  sched,           \* position of the scheduler loop in sorted_outdated_deps
  listing          \* the "Batch k: ..." lines written

vars == <<args, pc, exit_code, SKIP_TAPS, SKIP_FORMULAE, idx, formulae, formula_file,
          TAP_NAME, extra_formulae, checked, formula, livecheck_stdout, failed_calls,
          in_flight, warned, deps, old_versions, new_versions, old_versions_keys, outdated,
          sorted_outdated_deps, batches, previous, sched, listing>>

resolverVars == <<idx, formulae, formula_file, TAP_NAME>>
detectorVars == <<checked, formula, livecheck_stdout, failed_calls, in_flight, warned, deps,
                  old_versions, new_versions, old_versions_keys, outdated>>
schedulerVars == <<sorted_outdated_deps, batches, previous, sched, listing>>

Running == exit_code = {}

\* parser.parse_args(): one or more tokens, a skip list, the two flags
ArgsOver(TokenLists, SkipLists, All, Raw) ==
  { [taps_or_formulae |-> t, skip |-> s, all |-> a, raw_versions |-> r] :
      t \in TokenLists, s \in SkipLists, a \in All, r \in Raw }

\* the lists over Items with lo to hi entries
ListsOver(Items, lo, hi) == UNION {[1..k -> Items] : k \in lo..hi}

InitWith(Args) ==
  /\ args \in Args
  /\ pc = "skiplist"
  /\ exit_code = {}
  /\ SKIP_TAPS = <<>> /\ SKIP_FORMULAE = <<>>
  /\ idx = 1
  /\ formulae = {}
  /\ formula_file = EmptyDict
  /\ TAP_NAME = {}
  /\ extra_formulae = {}
  /\ checked = {}
  /\ formula = ""
  /\ livecheck_stdout = EmptyDict
  /\ failed_calls = {}
  /\ in_flight = <<>>
  /\ warned = {}
  /\ deps = EmptyDict /\ old_versions = EmptyDict /\ new_versions = EmptyDict
  /\ old_versions_keys = <<>>
  /\ outdated = EmptyDict
  /\ sorted_outdated_deps = <<>>
  /\ batches = <<>>
  /\ previous = 0
  /\ sched = 1
  /\ listing = <<>>

(***************************************************************************)
(* Lines 156-168: the skip list is classified; an item with more than two  *)
(* "/" ends the run.                                                       *)
(***************************************************************************)
\* the items read before the loop ends: all, or those before the first bad one
SkipSeen(SKIPLIST, bad) ==
  SubSeq(SKIPLIST, 1, IF bad = {} THEN Len(SKIPLIST) ELSE SetMin(bad) - 1)

\* lines 163-168 for the items read
SkipTapsOf(seen) == SelectSeq(seen, LAMBDA item : StrCount(item, "/") = 1)
SkipFormulaeOf(seen) ==
  SelectSeq([i \in 1..Len(seen) |->
               IF StrCount(seen[i], "/") = 0 THEN "homebrew/core/" \o seen[i]
               ELSE seen[i]],
            LAMBDA item : StrCount(item, "/") # 1)

SkipClassify(seen, bad) ==
  /\ SKIP_TAPS' = SkipTapsOf(seen)
  /\ SKIP_FORMULAE' = SkipFormulaeOf(seen)
  /\ IF bad # {}
     THEN exit_code' = {1} /\ pc' = pc
     ELSE exit_code' = exit_code /\ pc' = "resolve"

SkipLoop(SKIPLIST, bad) == SkipClassify(SkipSeen(SKIPLIST, bad), bad)

\* line 161: the places of the items with more than two "/"
SkipBad(SKIPLIST) == {i \in 1..Len(SKIPLIST) : StrCount(SKIPLIST[i], "/") \notin 0..2}

ProcessSkiplist ==
  /\ Running /\ pc = "skiplist"
  /\ SkipLoop(args.skip, SkipBad(args.skip))
  /\ UNCHANGED <<args, resolverVars, extra_formulae, detectorVars, schedulerVars>>

(***************************************************************************)
(* Lines 251-286: one pass of the resolver loop over a command-line token. *)
(***************************************************************************)
\* line 269: the tap of a formula file
FileTap(file_location) ==
  StrReplace(StrJoin("/", SliceM4M2(PathParts(file_location))), "homebrew-", "")

\* lines 270-277, for a formula found at file_location
ResolveNamed(file_location, formula_name, tap_name, SKIPLIST) ==
  IF ListSet(SKIPLIST) \cap {tap_name \o "/" \o formula_name, formula_name} # {}
  THEN [fail |-> 0, skipped |-> TRUE, tap_name |-> tap_name, files |-> EmptyDict]
  ELSE [fail |-> 0, skipped |-> FALSE, tap_name |-> tap_name,
        files |-> [n \in {tap_name \o "/" \o formula_name} |-> file_location]]

\* lines 267-277: formula_location(element) ends the run when brew fails
ResolveFormula(process, file_location, SKIPLIST) ==
  IF process.returncode # 0
  THEN [fail |-> process.returncode, skipped |-> FALSE, tap_name |-> "",
        files |-> EmptyDict]
  ELSE ResolveNamed(file_location, PathStem(file_location), FileTap(file_location), SKIPLIST)

\* line 176: the location is a pathlib.Path, kept here as its str()
FormulaLocation(process, SKIPLIST) ==
  ResolveFormula(process, PathStr(StrStrip(process.stdout)), SKIPLIST)

\* lines 260-265, for a token that names a known tap
ResolveTap(element) ==
  {[fail |-> o.fail, skipped |-> FALSE, tap_name |-> element, files |-> o.files] :
     o \in process_tap(element)}

\* what lines 259-277 may make of a token that is not itself in the skip
\* list: its tap, the formulae it adds, whether it is skipped by name, or the
\* return code the run ends with
ResolveToken(element, SKIPLIST) ==
  IF InList(element, KNOWN_TAPS)
  THEN ResolveTap(element)
  ELSE {FormulaLocation(BrewFormula(element), SKIPLIST)}

\* the taps never compared
CrossTap_Never(tap_name, all) == FALSE

\* lines 280-281: the token's tap differs from the one already set
CrossTap(tap_name, all) == ~all /\ TAP_NAME # {} /\ TAP_NAME # {tap_name}

ResolveApply(listed, r) ==
  IF listed \/ (r.fail = 0 /\ r.skipped)
  THEN /\ idx' = idx + 1
       /\ UNCHANGED <<formulae, formula_file, TAP_NAME, exit_code>>
  ELSE IF r.fail # 0
  THEN /\ exit_code' = {r.fail}
       /\ UNCHANGED <<idx, formulae, formula_file, TAP_NAME>>
  ELSE /\ formulae' = formulae \cup DOMAIN r.files
       /\ formula_file' = DictMerge(formula_file, r.files)
       /\ IF CrossTap(r.tap_name, args.all)
          THEN exit_code' = {1} /\ UNCHANGED <<idx, TAP_NAME>>
          ELSE /\ TAP_NAME' = IF args.all THEN TAP_NAME ELSE {r.tap_name}
               /\ idx' = idx + 1
               /\ exit_code' = exit_code

ResolveElement ==
  /\ Running /\ pc = "resolve" /\ idx <= Len(args.taps_or_formulae)
  /\ \E r \in ResolveToken(args.taps_or_formulae[idx], args.skip) :
       ResolveApply(InList(args.taps_or_formulae[idx], args.skip), r)
  /\ UNCHANGED <<args, pc, SKIP_TAPS, SKIP_FORMULAE, extra_formulae, detectorVars,
                 schedulerVars>>

\* lines 288-289: nothing to process ends the run with code 0
ResolveDone ==
  /\ Running /\ pc = "resolve" /\ idx > Len(args.taps_or_formulae)
  /\ IF formulae = {}
     THEN exit_code' = {0} /\ pc' = pc
     ELSE exit_code' = exit_code /\ pc' = "expand"
  /\ UNCHANGED <<args, SKIP_TAPS, SKIP_FORMULAE, resolverVars, extra_formulae,
                 detectorVars, schedulerVars>>

(***************************************************************************)
(* Lines 293-336: the expander.                                            *)
(***************************************************************************)
ChunkSize == 5

\* f"homebrew/core/{d}" if d.count("/") == 0 else d
CoreQualified(d) == IF StrCount(d, "/") = 0 THEN "homebrew/core/" \o d ELSE d

\* the words of a `brew deps` output, qualified, in order
QualifiedList(w) == [i \in 1..Len(w) |-> CoreQualified(w[i])]
DepsList(stdout) == QualifiedList(StrWords(stdout))

\* the scope test of lines 314 and 408
InTap(x, tap_name) == StartsWith(x, tap_name)

\* lines 308-316: the dependencies found, filtered to TAP_NAME unless --all
ExpandKeep(found, all, tap) ==
  IF found # {} /\ ~all /\ tap # {} /\ tap # {""}
  THEN {x \in found : InTap(x, CHOOSE t \in tap : TRUE) /\ x \notin formulae}
  ELSE found

ExpandTo(kept) ==
  /\ extra_formulae' = kept
  /\ pc' = IF kept = {} THEN "detect" ELSE "add"

\* lines 295-316: one `brew deps --union` per chunk of formulae, the union of
\* what they print, less the working set, filtered
\* lines 298-300: what the first j calls have added to extra_formulae
Found(outs, j) == UNION {ListSet(DepsList(outs[i])) : i \in 1..j}

ExpandChunks(UnionOutputs, nchunks) ==
  \E outs \in [1..nchunks -> UnionOutputs] :
    ExpandTo(ExpandKeep(Found(outs, nchunks) \ formulae, args.all, TAP_NAME))

\* line 295: the number of chunks
NChunks == (Cardinality(formulae) + ChunkSize - 1) \div ChunkSize

Expand(UnionOutputs) ==
  /\ Running /\ pc = "expand"
  /\ ExpandChunks(UnionOutputs, NChunks)
  /\ UNCHANGED <<args, exit_code, SKIP_TAPS, SKIP_FORMULAE, resolverVars, detectorVars,
                 schedulerVars>>

\* lines 329-334: brew wrote to stderr, or the formula has another location.
\* The keys of formula_file are the formulae of the working set and element
\* is none of them, so line 333 never compares with a pathlib.Path
AddFails(element, process, location) ==
  process.stderr # ""
    \/ (element \in DOMAIN formula_file /\ location # formula_file[element])

\* lines 327-336, for the answer of `brew formula element`
AddLocated(element, process, location) ==
  IF AddFails(element, process, location)
  THEN exit_code' = {1} /\ UNCHANGED <<pc, formulae, formula_file>>
  ELSE /\ formula_file' = DictSet(formula_file, element, location)
       /\ formulae' = formulae \cup {element}
       /\ pc' = IF extra_formulae \subseteq formulae' THEN "detect" ELSE "add"
       /\ exit_code' = exit_code

AddElement(element, process) == AddLocated(element, process, StrStrip(process.stdout))

\* lines 321-336: one pass of the loop that adds a dependency
AddDependency ==
  /\ Running /\ pc = "add"
  /\ \E element \in extra_formulae \ formulae : AddElement(element, BrewFormula(element))
  /\ UNCHANGED <<args, SKIP_TAPS, SKIP_FORMULAE, idx, TAP_NAME, extra_formulae,
                 detectorVars, schedulerVars>>

(***************************************************************************)
(* Lines 348-420: the update detector.                                     *)
(***************************************************************************)
\* what an external command returns: its return code and its stdout; a
\* failed command prints nothing on stdout
ProcessResults(Outputs) ==
  {[returncode |-> 0, stdout |-> o] : o \in Outputs} \cup {[returncode |-> 1, stdout |-> ""]}

\* line 375: _old, _new = ...
Unpack(p) ==
  IF Len(p) # 2
  THEN [kind |-> "ValueError", old |-> "", new |-> ""]
  ELSE [kind |-> "pair", old |-> p[1], new |-> p[2]]

\* lines 366-375 on the stripped stdout of `brew livecheck`
ParseLivecheck(stdout) ==
  IF stdout = ""
  THEN [kind |-> "current", old |-> "", new |-> ""]
  ELSE IF ~StrIn(" : ", stdout) \/ ~StrIn(" ==> ", stdout)
  THEN [kind |-> "unreadable", old |-> "", new |-> ""]
  ELSE Unpack(StrSplit(StrSplit(stdout, " : ")[2], " ==> "))

Markers == {"alpha", "beta", "rc", "preview"}

\* line 378
DotCountDiffers(_old, _new) == StrCount(_old, ".") # StrCount(_new, ".")

\* lines 382-383: some pair of zipped components differs in isdigit()
ZipDiffers(os, ns) ==
  \E i \in 1..(IF Len(os) < Len(ns) THEN Len(os) ELSE Len(ns)) :
    IsDigit(os[i]) # IsDigit(ns[i])
NamingDiffers(_old, _new) == ZipDiffers(StrSplit(_old, "."), StrSplit(_new, "."))

\* line 387
NotStable(_new) == \E c \in Markers : StrIn(c, _new)

\* the dot counts compared and nothing else looked at
Rejected_DotsOnly(raw_versions, _old, _new) ==
  ~raw_versions /\ DotCountDiffers(_old, _new)

\* lines 377-389: the candidate does not reach line 391.  The `continue` of
\* line 385 belongs to the inner loop over the components, so a naming
\* difference is logged and nothing more.
Rejected(raw_versions, _old, _new) ==
  ~raw_versions /\ (DotCountDiffers(_old, _new) \/ NotStable(_new))

\* lines 379, 384, 388: a "!" message is logged
Logged(raw_versions, _old, _new) ==
  ~raw_versions /\ (DotCountDiffers(_old, _new) \/ NamingDiffers(_old, _new) \/ NotStable(_new))

\* lines 391-394, or the `continue` of the loop
LivecheckRecord(f, parsed, record) ==
  IF record
  THEN /\ old_versions' = DictSet(old_versions, f, parsed.old)
       /\ new_versions' = DictSet(new_versions, f, parsed.new)
       /\ old_versions_keys' = Append(old_versions_keys, f)
       /\ pc' = "deps"
       /\ checked' = checked
  ELSE /\ UNCHANGED <<old_versions, new_versions, old_versions_keys, pc>>
       /\ checked' = IF exit_code' = {} THEN checked \cup {f} ELSE checked

\* lines 371, 379, 384, 388: the answer gets a warning
Warns(parsed) ==
  parsed.kind = "unreadable"
    \/ (parsed.kind = "pair" /\ Logged(args.raw_versions, parsed.old, parsed.new))

\* line 391 is reached
Records(parsed) ==
  parsed.kind = "pair" /\ ~Rejected(args.raw_versions, parsed.old, parsed.new)

\* the command returned an error
FailedCall(process, name) ==
  IF process.returncode # 0 THEN failed_calls \cup {name} ELSE failed_calls

\* lines 355-394 for formula f and the answer of `brew livecheck`
LivecheckStep(f, process, stdout, parsed, skip) ==
  /\ formula' = f
  /\ livecheck_stdout' = IF skip THEN livecheck_stdout
                         ELSE DictSet(livecheck_stdout, f, stdout)
  /\ failed_calls' = IF skip THEN failed_calls ELSE FailedCall(process, "livecheck")
  /\ warned' = IF ~skip /\ Warns(parsed) THEN warned \cup {f} ELSE warned
  /\ exit_code' = IF ~skip /\ parsed.kind = "ValueError" THEN {1} ELSE exit_code
  /\ LivecheckRecord(f, parsed, ~skip /\ Records(parsed))

\* lines 348-394: the loop takes a formula, and unless it is in the skip list
\* runs `brew livecheck` and reads the answer
Livecheck(Results) ==
  /\ Running /\ pc = "detect"
  /\ \E f \in formulae \ checked, process \in Results :
       LivecheckStep(f, process, StrStrip(process.stdout),
                     ParseLivecheck(StrStrip(process.stdout)), InList(f, args.skip))
  /\ UNCHANGED <<args, SKIP_TAPS, SKIP_FORMULAE, resolverVars, extra_formulae, deps,
                 in_flight, outdated, schedulerVars>>

\* lines 403-408: the dependencies kept for the formula
DepsKept(all_deps, all, tap_name) ==
  IF all THEN all_deps ELSE SelectSeq(all_deps, LAMBDA x : InTap(x, tap_name))

\* lines 396-415: the dependencies of the formula whose versions were recorded
Deps(Results) ==
  /\ Running /\ pc = "deps"
  /\ \E process \in Results :
       /\ deps' = DictSet(deps, formula,
                          DepsKept(DepsList(process.stdout), args.all,
                                   RSplitHead(formula, "/")))
       /\ failed_calls' = FailedCall(process, "deps")
  /\ checked' = checked \cup {formula}
  /\ pc' = "detect"
  /\ UNCHANGED <<args, exit_code, SKIP_TAPS, SKIP_FORMULAE, resolverVars, extra_formulae,
                 formula, livecheck_stdout, in_flight, warned, old_versions, new_versions,
                 old_versions_keys, outdated, schedulerVars>>

\* what the script has stored, as it is now
Here ==
  [SKIP_TAPS |-> SKIP_TAPS, SKIP_FORMULAE |-> SKIP_FORMULAE, formulae |-> formulae,
   formula_file |-> formula_file, TAP_NAME |-> TAP_NAME,
   extra_formulae |-> extra_formulae, formula |-> formula,
   livecheck_stdout |-> livecheck_stdout, failed_calls |-> failed_calls,
   warned |-> warned, old_versions |-> old_versions,
   old_versions_keys |-> old_versions_keys, deps |-> deps, in_flight |-> in_flight,
   sorted_outdated_deps |-> sorted_outdated_deps, batches |-> batches,
   listing |-> listing]

\* the script is stopped at the place
MoveTo(place) ==
  /\ SKIP_TAPS' = place.SKIP_TAPS
  /\ SKIP_FORMULAE' = place.SKIP_FORMULAE
  /\ formulae' = place.formulae
  /\ formula_file' = place.formula_file
  /\ TAP_NAME' = place.TAP_NAME
  /\ extra_formulae' = place.extra_formulae
  /\ formula' = place.formula
  /\ livecheck_stdout' = place.livecheck_stdout
  /\ failed_calls' = place.failed_calls
  /\ warned' = place.warned
  /\ old_versions' = place.old_versions
  /\ old_versions_keys' = place.old_versions_keys
  /\ deps' = place.deps
  /\ in_flight' = place.in_flight
  /\ sorted_outdated_deps' = place.sorted_outdated_deps
  /\ batches' = place.batches
  /\ listing' = place.listing

\* after line 363: the loop has bound f and the answer of `brew livecheck`
\* has been read
LivecheckRead(f, process, stdout) ==
  [Here EXCEPT !.formula = f,
               !.livecheck_stdout = DictSet(livecheck_stdout, f, stdout),
               !.failed_calls = FailedCall(process, "livecheck")]

\* the places of lines 363-391 at which the pass for f has not yet stored
\* new_versions[f]: the answer read, the warning of line 371, 379, 384 or 388
\* written when there is one, old_versions[f] stored (line 391 stores it
\* before new_versions[f])
LivecheckPlacesOf(f, read, parsed) ==
  {read, [read EXCEPT !.warned = IF Warns(parsed) THEN warned \cup {f} ELSE warned]}
    \cup (IF Records(parsed)
          THEN {[read EXCEPT !.warned = IF Warns(parsed) THEN warned \cup {f} ELSE warned,
                             !.old_versions = DictSet(old_versions, f, parsed.old),
                             !.old_versions_keys = Append(old_versions_keys, f)]}
          ELSE {})
LivecheckPlaces(f, Results) ==
  IF InList(f, args.skip) THEN {[Here EXCEPT !.formula = f]}
  ELSE {[Here EXCEPT !.formula = f]}
         \cup UNION {LivecheckPlacesOf(f, LivecheckRead(f, process, StrStrip(process.stdout)),
                                       ParseLivecheck(StrStrip(process.stdout))) :
                       process \in Results}

\* the places of lines 397-415: nothing yet, the call has returned, deps[f]
\* holds all the dependencies (line 403), deps[f] holds those kept (line 408)
DepsPlaces(f, Results) ==
  {Here}
    \cup {[Here EXCEPT !.failed_calls = FailedCall(process, "deps")] : process \in Results}
    \cup {[Here EXCEPT !.failed_calls = FailedCall(process, "deps"),
                       !.deps = DictSet(deps, f, DepsList(process.stdout))] :
            process \in Results}
    \cup {[Here EXCEPT !.failed_calls = FailedCall(process, "deps"),
                       !.deps = DictSet(deps, f, DepsKept(DepsList(process.stdout), args.all,
                                                          RSplitHead(f, "/")))] :
            process \in Results}

\* the places of the try block of lines 353-415 at which a KeyboardInterrupt
\* is caught
CaughtPlaces(LivecheckResults, DepsResults) ==
  IF pc = "detect"
  THEN UNION {LivecheckPlaces(f, LivecheckResults) : f \in formulae \ checked}
  ELSE DepsPlaces(formula, DepsResults)

\* lines 417-418: KeyboardInterrupt anywhere inside the try block of lines
\* 353-415, while a formula is being processed: what the pass has stored so
\* far stays, the message names the formula and the run ends with code 130
Interrupt(LivecheckResults, DepsResults) ==
  /\ Running /\ pc \in {"detect", "deps"}
  /\ \E place \in CaughtPlaces(LivecheckResults, DepsResults) :
       MoveTo([place EXCEPT !.in_flight = Append(in_flight, place.formula)])
  /\ exit_code' = {130}
  /\ UNCHANGED <<args, pc, idx, checked, new_versions, outdated, previous, sched>>

\* the handler of a caught KeyboardInterrupt (lines 417-418, and lines 58-60
\* of xorg-updater.py) is in no try block: a second KeyboardInterrupt inside
\* it stops the script where the first one found it, with the message that
\* names the formula not yet written or already written
HandlerPlaces(places) ==
  places \cup {[place EXCEPT !.in_flight = Append(in_flight, place.formula)] :
                 place \in places}

(***************************************************************************)
(* Lines 422-489: the outdated dependencies and the batch scheduler.       *)
(***************************************************************************)
\* e put after the items of a sorted list that have no more dependencies
InsertAt(init, e, n) == SubSeq(init, 1, n) \o <<e>> \o SubSeq(init, n + 1, Len(init))
\* e put at the end, whatever the number of its dependencies
InsertByDeps_AnyOrder(init, e) == Append(init, e)

InsertByDeps(init, e) ==
  InsertAt(init, e, Cardinality({i \in 1..Len(init) : Len(init[i][2]) <= Len(e[2])}))

\* sorted(items, key=lambda x: len(x[1])): stable, ascending
RECURSIVE SortedByDeps(_)
SortedByDeps(items) ==
  IF items = <<>> THEN <<>>
  ELSE InsertByDeps(SortedByDeps(SubSeq(items, 1, Len(items) - 1)), LastOf(items))

\* line 423: for each key of old_versions, in order, those of its deps that
\* are keys of old_versions
OutdatedDeps(keys, alldeps, outdatedKeys) ==
  [i \in 1..Len(keys) |->
     <<keys[i], SelectSeq(alldeps[keys[i]], LAMBDA x : x \in outdatedKeys)>>]

\* lines 423-426
SortedOutdated ==
  SortedByDeps(OutdatedDeps(old_versions_keys, deps, DOMAIN old_versions))

\* lines 423-426 and 475-476, once the detector loop has ended
BuildOutdated ==
  /\ Running /\ pc = "detect" /\ checked = formulae
  /\ IF \E i \in 1..Len(old_versions_keys) : old_versions_keys[i] \notin DOMAIN deps
     THEN exit_code' = {1}
          /\ UNCHANGED <<pc, sorted_outdated_deps, batches, previous, sched>>
     ELSE /\ sorted_outdated_deps' = SortedOutdated
          /\ pc' = "schedule"
          /\ exit_code' = exit_code
          /\ batches' = <<>> /\ previous' = 0 /\ sched' = 1
  /\ UNCHANGED <<args, SKIP_TAPS, SKIP_FORMULAE, resolverVars, extra_formulae,
                 detectorVars, listing>>

\* every batch made so far looked at, not only the previous one
BatchKey_AnyBatch(prev, batch, element_deps) ==
  IF prev # 0 /\ \A i \in 1..Len(element_deps) :
                   \A k \in DOMAIN batch : ~InList(element_deps[i], batch[k])
  THEN prev ELSE prev + 1

\* the previous batch taken whatever it holds
BatchKey_Unchecked(prev, batch, element_deps) ==
  IF prev # 0 THEN prev ELSE prev + 1

\* lines 480-483: the batch the element goes to
BatchKey(prev, batch, element_deps) ==
  IF prev # 0 /\ \A i \in 1..Len(element_deps) : ~InList(element_deps[i], batch[prev])
  THEN prev ELSE prev + 1

\* batches[key] = [name] in place of the append
BatchAppend_Assign(batch, key, name) ==
  [k \in DOMAIN batch \cup {key} |-> IF k = key THEN <<name>> ELSE batch[k]]

\* batches[key].append(name) on a defaultdict(list)
BatchAppend(batch, key, name) ==
  [k \in DOMAIN batch \cup {key} |->
     IF k = key THEN (IF k \in DOMAIN batch THEN batch[k] ELSE <<>>) \o <<name>>
     ELSE batch[k]]

\* lines 485-486
ScheduleAt(element, key) ==
  /\ batches' = BatchAppend(batches, key, element[1])
  /\ previous' = key

\* lines 478-486: one pass of the scheduler loop
ScheduleStep ==
  /\ Running /\ pc = "schedule" /\ sched <= Len(sorted_outdated_deps)
  /\ ScheduleAt(sorted_outdated_deps[sched],
                BatchKey(previous, batches, sorted_outdated_deps[sched][2]))
  /\ sched' = sched + 1
  /\ UNCHANGED <<args, pc, exit_code, SKIP_TAPS, SKIP_FORMULAE, resolverVars,
                 extra_formulae, detectorVars, sorted_outdated_deps, listing>>

\* lines 488-489: one line per batch
BatchLines == [k \in DOMAIN batches |-> <<k, batches[k]>>]

ListBatches ==
  /\ Running /\ pc = "schedule" /\ sched > Len(sorted_outdated_deps)
  /\ listing' = BatchLines
  /\ pc' = "report"
  /\ UNCHANGED <<args, exit_code, SKIP_TAPS, SKIP_FORMULAE, resolverVars, extra_formulae,
                 detectorVars, sorted_outdated_deps, batches, previous, sched>>

\* re.compile of the pattern of line 494 around the old version v, scanned
\* from place i: depth counts the open groups (the pattern opens one before
\* v and closes one after it), st is what a quantifier would apply to:
\* nothing, an item, a repeat that "?" or "+" may still qualify, or a
\* qualified repeat
RECURSIVE PatternScan(_, _, _, _)
ScanChar(v, i, depth, st, c) ==
  IF c = "(" THEN PatternScan(v, i + 1, depth + 1, "none")
  ELSE IF c = ")"
  THEN (IF depth = 0 THEN "error" ELSE PatternScan(v, i + 1, depth - 1, "item"))
  ELSE IF c \in {"|", "^", "$"} THEN PatternScan(v, i + 1, depth, "none")
  ELSE IF c \in {"*", "+", "?"}
  THEN (IF st = "item" THEN PatternScan(v, i + 1, depth, "rep")
        ELSE IF st = "rep" /\ c # "*" THEN PatternScan(v, i + 1, depth, "done")
        ELSE "error")
  ELSE PatternScan(v, i + 1, depth, "item")
PatternScan(v, i, depth, st) ==
  IF i > Len(v) THEN (IF depth = 1 THEN "ok" ELSE "error")
  ELSE ScanChar(v, i, depth, st, SubSeq(v, i, i))

\* the syntax the scan does not follow: sets, counted repeats, escapes and
\* group extensions
Unscanned == {"[", "{", "\\", "(?"}

\* line 499, re.search(pattern, line) of Python 3.11 on the first line of the
\* file: "ok", or "error" when the pattern does not compile; either when the
\* old version holds syntax the scan does not follow
PatternCompiles(v) ==
  IF \E u \in Unscanned : StrIn(u, v) THEN {"ok", "error"}
  ELSE {PatternScan(v, 1, 1, "rep")}

\* line 497: open(filename, 'r') raises for a file that is not there
OpenFails(filename) == filename \notin WorldFiles

\* lines 493-499 for one formula of batch 1, whose file holds a line
Suggest(f) ==
  IF OpenFails(formula_file[f]) THEN {"error"} ELSE PatternCompiles(old_versions[f])

\* lines 493-505 for batch 1: every formula gets its line, or an exception
\* that nothing catches ends the run
ReportResults(batch) ==
  {o \in {"ok", "error"} :
     IF o = "ok" THEN \A i \in 1..Len(batch) : "ok" \in Suggest(batch[i])
     ELSE \E i \in 1..Len(batch) : "error" \in Suggest(batch[i])}

\* lines 491-514: batches[1] is read (the defaultdict makes it), the
\* suggestions for batch 1 are written and the script ends; an exception ends
\* it with the traceback and status 1
Report ==
  /\ Running /\ pc = "report"
  /\ batches' = IF 1 \in DOMAIN batches THEN batches ELSE [k \in {1} |-> <<>>]
  /\ \E o \in ReportResults(batches'[1]) :
       IF o = "ok"
       THEN pc' = "done" /\ exit_code' = {0}
       ELSE pc' = pc /\ exit_code' = {1}
  /\ UNCHANGED <<args, SKIP_TAPS, SKIP_FORMULAE, resolverVars, extra_formulae,
                 detectorVars, sorted_outdated_deps, previous, sched, listing>>

\* lines 159-168: the first k items of the skip list have been classified
SkipPlaces(seen) ==
  {[Here EXCEPT !.SKIP_TAPS = SkipTapsOf(SubSeq(seen, 1, k)),
                !.SKIP_FORMULAE = SkipFormulaeOf(SubSeq(seen, 1, k))] :
     k \in 0..Len(seen)}

\* lines 264-265 and 278-286 for the token in hand: formulae is set before
\* formula_file, TAP_NAME last
ResolvePlaces ==
  IF idx > Len(args.taps_or_formulae) \/ InList(args.taps_or_formulae[idx], args.skip)
  THEN {Here}
  ELSE UNION {IF r.fail # 0 \/ r.skipped THEN {Here}
              ELSE {Here,
                    [Here EXCEPT !.formulae = formulae \cup DOMAIN r.files],
                    [Here EXCEPT !.formulae = formulae \cup DOMAIN r.files,
                                 !.formula_file = DictMerge(formula_file, r.files)],
                    [Here EXCEPT !.formulae = formulae \cup DOMAIN r.files,
                                 !.formula_file = DictMerge(formula_file, r.files),
                                 !.TAP_NAME = IF args.all \/ CrossTap(r.tap_name, args.all)
                                              THEN TAP_NAME ELSE {r.tap_name}]} :
                r \in ResolveToken(args.taps_or_formulae[idx], args.skip)}

\* lines 295-316: extra_formulae after j of the calls, after line 304 has
\* taken the working set out, after line 314 has filtered
ExpandPlaces(UnionOutputs) ==
  UNION {{[Here EXCEPT !.extra_formulae = Found(outs, j)] : j \in 0..NChunks}
           \cup {[Here EXCEPT !.extra_formulae = Found(outs, NChunks) \ formulae],
                 [Here EXCEPT !.extra_formulae =
                    ExpandKeep(Found(outs, NChunks) \ formulae, args.all, TAP_NAME)]} :
           outs \in [1..NChunks -> UnionOutputs]}

\* lines 335-336: formula_file[element] is set before formulae has element
AddPlaces ==
  {Here}
    \cup {[Here EXCEPT !.formula_file =
             DictSet(formula_file, element, StrStrip(BrewFormula(element).stdout))] :
            element \in {e \in extra_formulae \ formulae :
                           ~AddFails(e, BrewFormula(e), StrStrip(BrewFormula(e).stdout))}}

\* lines 348-350: the loop may have bound the next formula; line 420: the
\* interruption arrives while the handler of the ValueError of line 375
\* writes its message, the answer of `brew livecheck` read; lines 422-476
\* once the loop has ended
DetectPlaces(Results) ==
  {[Here EXCEPT !.formula = f] : f \in {formula} \cup (formulae \ checked)}
    \cup {LivecheckRead(x[1], x[2], StrStrip(x[2].stdout)) :
            x \in {y \in (formulae \ checked) \X Results :
                     /\ ~InList(y[1], args.skip)
                     /\ ParseLivecheck(StrStrip(y[2].stdout)).kind = "ValueError"}}
    \cup (IF checked = formulae /\ ListSet(old_versions_keys) \subseteq DOMAIN deps
          THEN {[Here EXCEPT !.sorted_outdated_deps = SortedOutdated]}
          ELSE {})

\* batches[key] on a defaultdict(list): the key is there, with an empty list
\* when it was not
BatchOpen(batch, key) ==
  [k \in DOMAIN batch \cup {key} |-> IF k \in DOMAIN batch THEN batch[k] ELSE <<>>]

\* line 485: batches[key] is read, then the name is appended to it, and
\* line 486 has not set previous; lines 488-489: the first j lines have been
\* written
SchedulePlaces ==
  IF sched <= Len(sorted_outdated_deps)
  THEN {Here,
        [Here EXCEPT !.batches =
           BatchOpen(batches, BatchKey(previous, batches, sorted_outdated_deps[sched][2]))],
        [Here EXCEPT !.batches =
           BatchAppend(batches, BatchKey(previous, batches, sorted_outdated_deps[sched][2]),
                       sorted_outdated_deps[sched][1])]}
  ELSE {[Here EXCEPT !.listing = SubSeq(BatchLines, 1, j)] : j \in 0..Len(BatchLines)}

\* the places the script can be stopped at outside the try block, the
\* handler of lines 417-418 among them; line 491 reads batches[1]
UncaughtPlaces(UnionOutputs, LivecheckResults, DepsResults) ==
  IF pc = "skiplist" THEN SkipPlaces(SkipSeen(args.skip, SkipBad(args.skip)))
  ELSE IF pc = "resolve" THEN ResolvePlaces
  ELSE IF pc = "expand" THEN ExpandPlaces(UnionOutputs)
  ELSE IF pc = "add" THEN AddPlaces
  ELSE IF pc = "detect"
  THEN DetectPlaces(LivecheckResults)
         \cup HandlerPlaces(CaughtPlaces(LivecheckResults, DepsResults))
  ELSE IF pc = "deps" THEN HandlerPlaces(CaughtPlaces(LivecheckResults, DepsResults))
  ELSE IF pc = "schedule" THEN SchedulePlaces
  ELSE {Here, [Here EXCEPT !.batches = BatchOpen(batches, 1)]}

\* KeyboardInterrupt anywhere outside the try block of lines 353-415: in the
\* skip list, the resolver, the expander, lines 348-350 of the detector loop,
\* its handlers of lines 417-418 (a second interruption) and 420, the
\* scheduler or the report.  Nothing catches it: what the script has stored
\* so far stays and the interpreter is killed by SIGINT, status -2 to the
\* caller (130 in a shell)
UncaughtInterrupt(UnionOutputs, LivecheckResults, DepsResults) ==
  /\ Running
  /\ pc \in {"skiplist", "resolve", "expand", "add", "detect", "deps", "schedule", "report"}
  /\ \E place \in UncaughtPlaces(UnionOutputs, LivecheckResults, DepsResults) :
       MoveTo(place)
  /\ exit_code' = {-2}
  /\ UNCHANGED <<args, pc, idx, checked, new_versions, outdated, previous, sched>>

(***************************************************************************)
(* xorg-updater.py: the same detector and scheduler for the one tap        *)
(* linuxbrew/xorg, with bare formula names.                                *)
(***************************************************************************)
XorgTapName == "linuxbrew/xorg"
XorgSkiplist == <<"libvdpau-va-gl", "mesa", "libva-intel-driver", "libva">>

\* glob("*.rb") in the Formula folder of the tap
XorgFolderFiles == {"mesa.rb", "xa.rb", "xb.rb", "xc.rb"}

\* the ASCII characters a TLA+ string can hold, in code-point order
Ascii ==
  "\t\n\f\r !\"#$%&'()*+,-./0123456789:;<=>?@ABCDEFGHIJKLMNOPQRSTUVWXYZ[\\]^_abcdefghijklmnopqrstuvwxyz{|}~"

\* a < b for strings
RECURSIVE StrLess(_, _)
StrLess(a, b) ==
  IF b = "" THEN FALSE
  ELSE IF a = "" THEN TRUE
  ELSE IF SubSeq(a, 1, 1) = SubSeq(b, 1, 1)
  THEN StrLess(SubSeq(a, 2, Len(a)), SubSeq(b, 2, Len(b)))
  ELSE StrFind(Ascii, SubSeq(a, 1, 1)) < StrFind(Ascii, SubSeq(b, 1, 1))

\* sorted(S) for a set of distinct strings
RECURSIVE SortedList(_)
SortedFrom(S, m) == <<m>> \o SortedList(S \ {m})
SortedList(S) ==
  IF S = {} THEN <<>>
  ELSE SortedFrom(S, CHOOSE x \in S : \A y \in S \ {x} : StrLess(x, y))

\* os.path.splitext(x)[0] of a file name
RootAt(x, i) ==
  IF i > 0 /\ \E k \in 1..(i - 1) : SubSeq(x, k, k) # "." THEN SubSeq(x, 1, i - 1) ELSE x
SplitExtRoot(x) == RootAt(x, MaxOrZero(Occurrences(x, ".")))

NoArgs == [taps_or_formulae |-> <<>>, skip |-> <<>>, all |-> FALSE, raw_versions |-> TRUE]

\* xorg-updater.py lines 12-23: the state when the script asks for the
\* folder of the tap
InitXorg ==
  /\ args = NoArgs
  /\ pc = "x_start"
  /\ exit_code = {}
  /\ SKIP_TAPS = <<>> /\ SKIP_FORMULAE = <<>>
  /\ idx = 1
  /\ formulae = <<>>
  /\ formula_file = EmptyDict
  /\ TAP_NAME = {XorgTapName}
  /\ extra_formulae = {}
  /\ checked = {}
  /\ formula = ""
  /\ livecheck_stdout = EmptyDict
  /\ failed_calls = {}
  /\ in_flight = <<>>
  /\ warned = {}
  /\ deps = EmptyDict /\ old_versions = EmptyDict /\ new_versions = EmptyDict
  /\ old_versions_keys = <<>>
  /\ outdated = EmptyDict
  /\ sorted_outdated_deps = <<>>
  /\ batches = <<>>
  /\ previous = 0
  /\ sched = 1
  /\ listing = <<>>

\* xorg-updater.py lines 26-35: the formulae of the tap, sorted
XorgListFormulae ==
  /\ Running /\ pc = "x_start"
  /\ formulae' = SortedList({SplitExtRoot(x) : x \in XorgFolderFiles})
  /\ pc' = "x_detect"
  /\ UNCHANGED <<args, exit_code, SKIP_TAPS, SKIP_FORMULAE, idx, formula_file, TAP_NAME,
                 extra_formulae, detectorVars, schedulerVars>>

\* xorg-updater.py lines 42-48 for the answer of `brew livecheck`: the formula
\* is up to date or unreadable, the unpacking raises ValueError (nothing
\* catches it), or the versions are recorded
XorgRead(f, process, stdout, parsed) ==
  /\ livecheck_stdout' = DictSet(livecheck_stdout, f, stdout)
  /\ failed_calls' = FailedCall(process, "livecheck")
  /\ IF parsed.kind = "pair"
     THEN /\ outdated' = DictSet(outdated, f, <<parsed.old, parsed.new>>)
          /\ pc' = "x_deps"
          /\ UNCHANGED <<idx, exit_code>>
     ELSE IF parsed.kind = "ValueError"
     THEN exit_code' = {1} /\ UNCHANGED <<outdated, pc, idx>>
     ELSE idx' = idx + 1 /\ UNCHANGED <<outdated, pc, exit_code>>

\* xorg-updater.py lines 37-49: the loop takes the next formula, and unless it
\* is in the skip list runs `brew livecheck` and reads the answer
XorgLivecheck(Results) ==
  /\ Running /\ pc = "x_detect" /\ idx <= Len(formulae)
  /\ formula' = formulae[idx]
  /\ IF InList(formulae[idx], XorgSkiplist)
     THEN /\ idx' = idx + 1
          /\ UNCHANGED <<livecheck_stdout, failed_calls, outdated, pc, exit_code>>
     ELSE \E process \in Results :
            XorgRead(formulae[idx], process, StrStrip(process.stdout),
                     ParseLivecheck(StrStrip(process.stdout)))
  /\ UNCHANGED <<args, SKIP_TAPS, SKIP_FORMULAE, formulae, formula_file, TAP_NAME,
                 extra_formulae, checked, in_flight, warned, deps, old_versions,
                 new_versions, old_versions_keys, schedulerVars>>

\* xorg-updater.py line 54: x[15:] of the dependencies that start with the
\* tap's name
XorgCutAt == 15
XorgCut(x) == SubSeq(x, XorgCutAt + 1, Len(x))
XorgCutAll(kept) == [i \in 1..Len(kept) |-> XorgCut(kept[i])]
XorgTapDeps(words) ==
  XorgCutAll(SelectSeq(words, LAMBDA x : StartsWith(x, XorgTapName)))

\* xorg-updater.py lines 51-55
XorgDeps(Results) ==
  /\ Running /\ pc = "x_deps"
  /\ \E process \in Results :
       /\ deps' = DictSet(deps, formula, XorgTapDeps(StrWords(process.stdout)))
       /\ failed_calls' = FailedCall(process, "deps")
  /\ idx' = idx + 1
  /\ pc' = "x_detect"
  /\ UNCHANGED <<args, exit_code, SKIP_TAPS, SKIP_FORMULAE, formulae, formula_file,
                 TAP_NAME, extra_formulae, checked, formula, livecheck_stdout, in_flight,
                 warned, old_versions, new_versions, old_versions_keys, outdated,
                 schedulerVars>>

\* xorg-updater.py lines 39-42: the loop has bound f, and the answer of
\* `brew livecheck` may have been read (line 48 stores the versions in one
\* go, and the pass is then at the call of `brew deps`)
XorgLivecheckPlaces(f, Results) ==
  IF InList(f, XorgSkiplist) THEN {[Here EXCEPT !.formula = f]}
  ELSE {[Here EXCEPT !.formula = f]}
         \cup {LivecheckRead(f, process, StrStrip(process.stdout)) : process \in Results}

\* xorg-updater.py lines 51-56: nothing yet, the call has returned, deps[f]
\* is stored
XorgDepsPlaces(f, Results) ==
  {Here}
    \cup {[Here EXCEPT !.failed_calls = FailedCall(process, "deps")] : process \in Results}
    \cup {[Here EXCEPT !.failed_calls = FailedCall(process, "deps"),
                       !.deps = DictSet(deps, f, XorgTapDeps(StrWords(process.stdout)))] :
            process \in Results}

\* xorg-updater.py lines 58-61: KeyboardInterrupt anywhere inside the try
\* block of lines 38-56, while a formula is being processed: what the pass
\* has stored so far stays, the message is printed and the loop goes on
XorgCaughtPlaces(LivecheckResults, DepsResults) ==
  IF pc = "x_detect" THEN XorgLivecheckPlaces(formulae[idx], LivecheckResults)
  ELSE XorgDepsPlaces(formulae[idx], DepsResults)

XorgInterrupt(LivecheckResults, DepsResults) ==
  /\ Running /\ pc \in {"x_detect", "x_deps"} /\ idx <= Len(formulae)
  /\ \E place \in XorgCaughtPlaces(LivecheckResults, DepsResults) :
       MoveTo([place EXCEPT !.in_flight = Append(in_flight, place.formula)])
  /\ idx' = idx + 1
  /\ pc' = "x_detect"
  /\ UNCHANGED <<args, exit_code, checked, new_versions, outdated, previous, sched>>

\* xorg-updater.py lines 95-96: one line per batch, numbered from 0
XorgBatchLines == [k \in 1..Cardinality(DOMAIN batches) |-> <<k - 1, batches[k - 1]>>]

\* xorg-updater.py lines 85-90: the batch the element goes to
XorgBatchKey(prev, batch, element_deps) ==
  IF prev >= 0 /\ \A i \in 1..Len(element_deps) : ~InList(element_deps[i], batch[prev])
  THEN prev ELSE prev + 1

\* the keys of the dict outdated in insertion order: the loop runs over the
\* sorted formulae
XorgOutdatedKeys == SelectSeq(formulae, LAMBDA f : f \in DOMAIN outdated)

\* xorg-updater.py lines 63-67
XorgSortedOutdated ==
  SortedByDeps(OutdatedDeps(XorgOutdatedKeys, deps, DOMAIN outdated))

\* xorg-updater.py line 37 (the loop may have bound the next formula) and
\* lines 63-80 once the loop has ended
XorgDetectPlaces ==
  IF idx <= Len(formulae) THEN {Here, [Here EXCEPT !.formula = formulae[idx]]}
  ELSE IF DOMAIN outdated \subseteq DOMAIN deps
  THEN {Here, [Here EXCEPT !.sorted_outdated_deps = XorgSortedOutdated]}
  ELSE {Here}

\* xorg-updater.py lines 84-96
XorgSchedulePlaces ==
  IF sched <= Len(sorted_outdated_deps)
  THEN {Here,
        [Here EXCEPT !.batches =
           BatchOpen(batches,
                     XorgBatchKey(previous, batches, sorted_outdated_deps[sched][2]))],
        [Here EXCEPT !.batches =
           BatchAppend(batches,
                       XorgBatchKey(previous, batches, sorted_outdated_deps[sched][2]),
                       sorted_outdated_deps[sched][1])]}
  ELSE {[Here EXCEPT !.listing = SubSeq(XorgBatchLines, 1, j)] :
          j \in 0..Len(XorgBatchLines)}

\* the places xorg-updater.py can be stopped at outside the try block of
\* lines 38-56: before the loop (lines 26-35 have stored nothing or the
\* formulae), at the `for` of line 37, in the handler of lines 58-60 (a
\* second interruption), after the loop, in the scheduler or while the
\* batches are printed
XorgUncaughtPlaces(LivecheckResults, DepsResults) ==
  IF pc = "x_start" THEN {Here}
  ELSE IF pc = "x_detect"
  THEN XorgDetectPlaces
         \cup (IF idx <= Len(formulae)
               THEN HandlerPlaces(XorgCaughtPlaces(LivecheckResults, DepsResults))
               ELSE {})
  ELSE IF pc = "x_deps" THEN HandlerPlaces(XorgCaughtPlaces(LivecheckResults, DepsResults))
  ELSE XorgSchedulePlaces

\* xorg-updater.py: KeyboardInterrupt outside the try block of lines 38-56:
\* nothing catches it and the interpreter is killed by SIGINT
XorgUncaughtInterrupt(LivecheckResults, DepsResults) ==
  /\ Running /\ pc \in {"x_start", "x_detect", "x_deps", "x_schedule"}
  /\ \E place \in XorgUncaughtPlaces(LivecheckResults, DepsResults) : MoveTo(place)
  /\ exit_code' = {-2}
  /\ UNCHANGED <<args, pc, idx, checked, new_versions, outdated, previous, sched>>

\* xorg-updater.py lines 63-67 and 81-82, once the detector loop has ended;
\* deps[formula] of a formula without an entry raises KeyError
XorgBuildOutdated ==
  /\ Running /\ pc = "x_detect" /\ idx > Len(formulae)
  /\ IF DOMAIN outdated \subseteq DOMAIN deps
     THEN /\ sorted_outdated_deps' = XorgSortedOutdated
          /\ pc' = "x_schedule"
          /\ exit_code' = exit_code
          /\ batches' = <<>> /\ previous' = -1 /\ sched' = 1
     ELSE exit_code' = {1}
          /\ UNCHANGED <<pc, sorted_outdated_deps, batches, previous, sched>>
  /\ UNCHANGED <<args, SKIP_TAPS, SKIP_FORMULAE, resolverVars, extra_formulae,
                 detectorVars, listing>>

\* xorg-updater.py lines 84-93: one pass of the scheduler loop
XorgScheduleStep ==
  /\ Running /\ pc = "x_schedule" /\ sched <= Len(sorted_outdated_deps)
  /\ ScheduleAt(sorted_outdated_deps[sched],
                XorgBatchKey(previous, batches, sorted_outdated_deps[sched][2]))
  /\ sched' = sched + 1
  /\ UNCHANGED <<args, pc, exit_code, SKIP_TAPS, SKIP_FORMULAE, resolverVars,
                 extra_formulae, detectorVars, sorted_outdated_deps, listing>>

\* xorg-updater.py lines 95-96: one line per batch, and the script ends
XorgListBatches ==
  /\ Running /\ pc = "x_schedule" /\ sched > Len(sorted_outdated_deps)
  /\ listing' = XorgBatchLines
  /\ pc' = "done"
  /\ exit_code' = {0}
  /\ UNCHANGED <<args, SKIP_TAPS, SKIP_FORMULAE, resolverVars, extra_formulae,
                 detectorVars, sorted_outdated_deps, batches, previous, sched>>

(***************************************************************************)
(* The runs checked.                                                       *)
(***************************************************************************)
NextWith(UnionOutputs, LivecheckOutputs, DepsOutputs) ==
  \/ ProcessSkiplist
  \/ ResolveElement
  \/ ResolveDone
  \/ Expand(UnionOutputs)
  \/ AddDependency
  \/ Livecheck(ProcessResults(LivecheckOutputs))
  \/ Deps(ProcessResults(DepsOutputs))
  \/ Interrupt(ProcessResults(LivecheckOutputs), ProcessResults(DepsOutputs))
  \/ UncaughtInterrupt(UnionOutputs, ProcessResults(LivecheckOutputs),
                       ProcessResults(DepsOutputs))
  \/ BuildOutdated
  \/ ScheduleStep
  \/ ListBatches
  \/ Report

MaxTokens == 2
MaxSkip == 1

Tokens == {"user/tap-extra", "user/tap/a", "d", "nosuch", "user/gone"}
SkipItems == {"e", "user/tap-extra/e", "d", "w/x/y/z"}
UnionOutputs == {"", "user/tap-extra/e\nd\n", "user/tap/zz\n"}
LivecheckOutputs == {"", "pkg : 1.2.3 ==> 1.2.4\n"}
DepsOutputs == {"", "user/tap/a\nuser/tap-extra/e\nd\n"}

Init == InitWith(ArgsOver(ListsOver(Tokens, 1, MaxTokens), ListsOver(SkipItems, 0, MaxSkip),
                          BOOLEAN, {FALSE}))
Next == NextWith(UnionOutputs, LivecheckOutputs, DepsOutputs)
Spec == Init /\ [][Next]_vars

XorgLivecheckOutputs == {"", "xa : 1.0 ==> 1.1\n", "no livecheck\n", "xa : 1.0 ==> 1.1 ==> 1.2\n"}
XorgDepsOutputs ==
  {"", "linuxbrew/xorg/xa\npkg-config\n", "linuxbrew/xorg/xa\nlinuxbrew/xorg/xb\n"}

NextXorg ==
  \/ XorgListFormulae
  \/ XorgLivecheck(ProcessResults(XorgLivecheckOutputs))
  \/ XorgDeps(ProcessResults(XorgDepsOutputs))
  \/ XorgInterrupt(ProcessResults(XorgLivecheckOutputs), ProcessResults(XorgDepsOutputs))
  \/ XorgUncaughtInterrupt(ProcessResults(XorgLivecheckOutputs),
                           ProcessResults(XorgDepsOutputs))
  \/ XorgBuildOutdated
  \/ XorgScheduleStep
  \/ XorgListBatches
SpecXorg == InitXorg /\ [][NextXorg]_vars


(***************************************************************************)
(* The scheduler on every dependency relation over three formulae: one     *)
(* formula is named, the expander adds the two others, and `brew deps`     *)
(* may answer any subset of the three for each.                            *)
(***************************************************************************)
SchedUnionOutputs == {"user/tap/b\nuser/tap/c\n"}
SchedLivecheckOutputs == {"", "pkg : 1.2.3 ==> 1.2.4\n"}
SchedDepsOutputs ==
  {"", "user/tap/a\n", "user/tap/b\n", "user/tap/c\n", "user/tap/a\nuser/tap/b\n",
   "user/tap/a\nuser/tap/c\n", "user/tap/b\nuser/tap/c\n",
   "user/tap/a\nuser/tap/b\nuser/tap/c\n"}
InitSched == InitWith(ArgsOver({<<"user/tap/a">>}, {<<>>}, {FALSE}, {FALSE}))
NextSched == NextWith(SchedUnionOutputs, SchedLivecheckOutputs, SchedDepsOutputs)
SpecSched == InitSched /\ [][NextSched]_vars

(***************************************************************************)
(* The detector on the answers `brew livecheck` can give for two formulae, *)
(* with and without --raw-versions.                                        *)
(***************************************************************************)
VersionsUnionOutputs == {"", "user/tap/b\n"}
VersionsLivecheckOutputs ==
  {"", "no livecheck\n", "pkg : 1.2.3 ==> 1.2.4\n", "pkg : 1.2.3 ==> 1.2\n",
   "pkg : 1.2.3 ==> 1.2.3-rc1\n", "pkg : 1.2.3 ==> 1.b.3\n", "pkg : 1.2 ==> 1.3.beta\n",
   "pkg : 1.a ==> 1.b\n", "pkg : 1.2 ==> 1.alpha\n", "pkg : 2 ==> 3preview\n",
   "1.2.3 ==> 1.2.4 : pkg\n", "pkg : 1 ==> 2 ==> 3\n", "a : b : 1 ==> 2\n",
   "pkg : 1.2 ==> 1.3 : x\n", "pkg : 1.2( ==> 1.3(\n", "pkg : 1.2[ ==> 1.3[\n"}
VersionsDepsOutputs == {"", "user/tap/b\n"}
InitVersions == InitWith(ArgsOver({<<"user/tap/a">>}, {<<>>}, {FALSE}, BOOLEAN))
NextVersions ==
  NextWith(VersionsUnionOutputs, VersionsLivecheckOutputs, VersionsDepsOutputs)
SpecVersions == InitVersions /\ [][NextVersions]_vars

(***************************************************************************)
(* Properties of the batches.                                              *)
(***************************************************************************)
\* the scheduler loop has gone through all of sorted_outdated_deps
SchedulerRan ==
  \/ pc \in {"report", "done"}
  \/ pc = "schedule" /\ sched > Len(sorted_outdated_deps)

\* where p stands in the batches: the pairs <<batch, position>>
Places(p) ==
  UNION {{<<k, i>> : i \in {j \in 1..Len(batches[k]) : batches[k][j] = p}} :
           k \in DOMAIN batches}
BatchesOf(p) == {k \in DOMAIN batches : InList(p, batches[k])}
UsedBatches == {k \in DOMAIN batches : batches[k] # <<>>}

\* C1: once the scheduler has run, every formula with recorded versions
\* stands at exactly one place of exactly one batch, the batches hold
\* nothing else, and the batches in use are numbered 1..K, with K = 0 exactly
\* when no formula is outdated
C1_Partition ==
  SchedulerRan =>
    /\ \A p \in DOMAIN old_versions : Cardinality(Places(p)) = 1
    /\ \A k \in DOMAIN batches : \A i \in 1..Len(batches[k]) :
         batches[k][i] \in DOMAIN old_versions
    /\ UsedBatches = 1..Cardinality(UsedBatches)
    /\ (UsedBatches = {}) = (DOMAIN old_versions = {})

\* three outdated formulae spread over more than one batch
C1_Witness ==
  /\ pc = "done"
  /\ Cardinality(DOMAIN old_versions) = 3
  /\ Cardinality(UsedBatches) >= 2
  /\ \E k \in UsedBatches : Len(batches[k]) = 2

\* where p stands in the scheduler's order
PositionsOf(p) == {i \in 1..Len(sorted_outdated_deps) : sorted_outdated_deps[i][1] = p}

\* C2, as stated: once the scheduler has run, every outdated dependency q of
\* an outdated formula p, other than p, is in a batch before the batch of p
C2_AllDepsBefore ==
  SchedulerRan =>
    \A i \in 1..Len(sorted_outdated_deps) :
      \A j \in 1..Len(sorted_outdated_deps[i][2]) :
        sorted_outdated_deps[i][2][j] # sorted_outdated_deps[i][1] =>
          \A kp \in BatchesOf(sorted_outdated_deps[i][1]) :
            \A kq \in BatchesOf(sorted_outdated_deps[i][2][j]) : kq < kp

\* C2, amended: once the scheduler has run, every outdated dependency q of an
\* outdated formula p that the scheduler's order puts before p is in a batch
\* before the batch of p
C2_EarlierDepsBefore ==
  SchedulerRan =>
    \A i \in 1..Len(sorted_outdated_deps) :
      \A j \in 1..Len(sorted_outdated_deps[i][2]) :
        (\E n \in PositionsOf(sorted_outdated_deps[i][2][j]) : n < i) =>
          /\ BatchesOf(sorted_outdated_deps[i][2][j]) # {}
          /\ \A kp \in BatchesOf(sorted_outdated_deps[i][1]) :
               \A kq \in BatchesOf(sorted_outdated_deps[i][2][j]) : kq < kp

\* a chain of three: the last formula of the order depends on the two before
\* it, and the three are in three batches
C2_Witness ==
  /\ pc = "done"
  /\ Len(sorted_outdated_deps) = 3
  /\ Len(sorted_outdated_deps[3][2]) = 2
  /\ ~InList(sorted_outdated_deps[3][1], sorted_outdated_deps[3][2])
  /\ BatchesOf(sorted_outdated_deps[3][1]) = {3}

(***************************************************************************)
(* Properties of the detector.                                             *)
(***************************************************************************)
\* what line 375 takes from the answer `brew livecheck` gave for f
Candidate(f) == ParseLivecheck(livecheck_stdout[f])
Recorded(f, o, n) ==
  f \in DOMAIN old_versions /\ old_versions[f] = o /\ new_versions[f] = n
InSomeBatch(f) == \E k \in DOMAIN batches : InList(f, batches[k])

SameDots(o, n) == StrCount(o, ".") = StrCount(n, ".")
HasMarker(n) == \E m \in {"alpha", "beta", "rc", "preview"} : StrIn(m, n)
\* some component is a number in one of the versions only
MixedComponent(os, ns) ==
  \E i \in 1..Len(os) : i <= Len(ns) /\ IsDigit(os[i]) # IsDigit(ns[i])
Mixed(o, n) == MixedComponent(StrSplit(o, "."), StrSplit(n, "."))

\* the pass of the detector loop for f was cut short by the user: the run
\* has ended by an interruption (code 130 from the handler of lines 417-418,
\* or killed) with f the formula of the loop and its pass not completed
Interrupted(f) == formula = f /\ f \notin checked /\ exit_code \in {{130}, {-2}}

\* C3, as stated: without --raw-versions, a candidate with a component that
\* is a number in one of old/new and not in the other is not recorded and is
\* in no batch
C3_MixedHolds(f, o, n) ==
  (~args.raw_versions /\ Mixed(o, n)) => (f \notin DOMAIN old_versions /\ ~InSomeBatch(f))
C3_MixedRejected ==
  \A f \in DOMAIN livecheck_stdout :
    Candidate(f).kind = "pair" => C3_MixedHolds(f, Candidate(f).old, Candidate(f).new)

\* the answer reads <noise> : <old> ==> <new>
TwoPartShape(s) ==
  /\ StrCount(s, " : ") = 1 /\ StrCount(s, " ==> ") = 1
  /\ StrFind(s, " : ") < StrFind(s, " ==> ")

\* C5, as stated: a formula whose answer is not empty and not of the two-part
\* shape is warned about and left out of the outdated set, and the run does
\* not end with an error at that formula (unless the user interrupted the
\* pass for it)
C5_MalformedOnlyWarns ==
  \A f \in DOMAIN livecheck_stdout :
    (livecheck_stdout[f] # "" /\ ~TwoPartShape(livecheck_stdout[f]) /\ ~Interrupted(f)) =>
      /\ ~(exit_code = {1} /\ pc = "detect" /\ formula = f)
      /\ f \notin DOMAIN old_versions
      /\ f \in warned

\* C10: without --raw-versions a candidate whose dot counts differ or whose
\* new version holds a marker is not recorded, and one with equal dot counts,
\* components alike in being numbers and no marker is recorded as parsed;
\* with --raw-versions every candidate is recorded as parsed.  A candidate
\* whose pass the user interrupted before line 391 was not decided
C10_Holds(f, o, n) ==
  /\ (~args.raw_versions /\ (~SameDots(o, n) \/ HasMarker(n))) =>
       f \notin DOMAIN old_versions
  /\ (~args.raw_versions /\ SameDots(o, n) /\ ~Mixed(o, n) /\ ~HasMarker(n)) =>
       Recorded(f, o, n)
  /\ args.raw_versions => Recorded(f, o, n)
C10_Policy ==
  \A f \in DOMAIN livecheck_stdout :
    (Candidate(f).kind = "pair" /\ ~(pc = "detect" /\ Interrupted(f))) =>
      C10_Holds(f, Candidate(f).old, Candidate(f).new)

\* without --raw-versions, 1.2.3 -> 1.2.4 was recorded for one formula and a
\* candidate with a marker was dropped for the other
C10_Witness ==
  /\ ~args.raw_versions
  /\ pc = "done"
  /\ \E f \in DOMAIN livecheck_stdout :
       /\ livecheck_stdout[f] = "pkg : 1.2.3 ==> 1.2.4"
       /\ Recorded(f, "1.2.3", "1.2.4") /\ InSomeBatch(f)
  /\ \E g \in DOMAIN livecheck_stdout :
       /\ livecheck_stdout[g] = "pkg : 1.2.3 ==> 1.2.3-rc1"
       /\ g \notin DOMAIN old_versions

\* C4, as stated: once `brew livecheck` or `brew deps` has failed for a
\* formula, the run does not go on to the scheduler
C4_FailureStopsRun ==
  failed_calls # {} => pc \notin {"schedule", "report", "done"}

\* C6, as stated: once an interruption has arrived in the detector loop, the
\* run has ended with code 130 (or a second interruption has killed it in
\* the handler) at the one formula in flight, in the loop, without batches or
\* a listing
C6_InterruptEndsRun ==
  in_flight # <<>> =>
    /\ exit_code \in {{130}, {-2}}
    /\ Len(in_flight) = 1
    /\ pc \in {"detect", "deps", "x_detect", "x_deps"}
    /\ batches = <<>> /\ listing = <<>>

\* the formula is in the skip list under its full or its bare name
SkipListed(f) == InList(f, args.skip) \/ InList(SplitLast(f, "/"), args.skip)

\* C7, as stated: a formula of the working set that the skip list names in
\* either form is not asked about, has no versions and is in no batch
C7_SkippedNeverChecked ==
  \A f \in formulae :
    SkipListed(f) =>
      /\ f \notin DOMAIN livecheck_stdout
      /\ f \notin DOMAIN old_versions
      /\ ~InSomeBatch(f)

(***************************************************************************)
(* Properties of the resolver and the expander.                            *)
(***************************************************************************)
\* the tap a token brings in: none when the token is skipped or brew does
\* not resolve it
TapOfResult(r) == IF r.fail = 0 /\ ~r.skipped THEN {r.tap_name} ELSE {}
TapOf(element) ==
  IF InList(element, args.skip) THEN {}
  ELSE UNION {TapOfResult(r) : r \in ResolveToken(element, args.skip)}
\* two tokens of the command line resolve to different taps
CrossScope ==
  Cardinality(UNION {TapOf(args.taps_or_formulae[i]) :
                       i \in 1..Len(args.taps_or_formulae)}) > 1

\* C8: without --all, when two tokens that are not skipped resolve to
\* different taps, the run never gets past the resolver loop and never leaves
\* it with all tokens taken: unless the user's interruption kills it first,
\* the only way it ends is with code 1, and nothing is expanded, asked about
\* or batched
C8_CrossScopeFails ==
  (~args.all /\ CrossScope) =>
    /\ pc \in {"skiplist", "resolve"}
    /\ idx <= Len(args.taps_or_formulae)
    /\ exit_code \subseteq {1, -2}
    /\ extra_formulae = {}
    /\ DOMAIN livecheck_stdout = {} /\ DOMAIN deps = {}
    /\ sorted_outdated_deps = <<>> /\ batches = <<>> /\ listing = <<>>

\* the run has ended with code 1 at the second token, whose tap is not the
\* one the first token set
C8_Witness ==
  /\ ~args.all /\ CrossScope
  /\ pc = "resolve" /\ exit_code = {1}
  /\ idx = 2
  /\ TAP_NAME # {}
  /\ TapOf(args.taps_or_formulae[idx]) # {}
  /\ TAP_NAME # TapOf(args.taps_or_formulae[idx])

\* the tap of a full formula name
Scope(f) == RSplitHead(f, "/")

\* C9, as stated: without --all, once the dependencies have been added every
\* formula of the working set is of the tap the resolver set, and every
\* dependency kept for a formula is of that formula's tap (the formula the
\* user interrupted aside: its dependencies may not have been filtered yet)
C9_ExactScope ==
  ~args.all =>
    /\ pc \in {"detect", "deps", "schedule", "report", "done"} =>
         \A f \in formulae : TAP_NAME = {Scope(f)}
    /\ \A p \in DOMAIN deps :
         ~Interrupted(p) => \A i \in 1..Len(deps[p]) : Scope(deps[p][i]) = Scope(p)

(***************************************************************************)
(* The two scheduler loops side by side: a run is a run of tap-updater.py  *)
(* on three formulae or a run of xorg-updater.py.                          *)
(***************************************************************************)
InitSchedulers == InitSched \/ InitXorg
NextSchedulers == NextSched \/ NextXorg
SpecSchedulers == InitSchedulers /\ [][NextSchedulers]_vars

(***************************************************************************)
(* Properties of one pass of the scheduler loop.                           *)
(***************************************************************************)
\* the batch with the highest index, if there is one
LastBatch == IF DOMAIN batches = {} THEN {} ELSE {SetMax(DOMAIN batches)}
\* the index the first batch gets: 1 in tap-updater.py, 0 in xorg-updater.py
FirstBatch == IF pc = "x_schedule" THEN 0 ELSE 1

\* there is a last batch and it holds none of the dependencies
FitsLast(element_deps, last) ==
  \E k \in last : \A i \in 1..Len(element_deps) : ~InList(element_deps[i], batches[k])
\* the step puts p at the end of batch k and changes nothing else
AppendedTo(p, k) ==
  /\ DOMAIN batches' = DOMAIN batches
  /\ \A j \in DOMAIN batches :
       batches'[j] = IF j = k THEN Append(batches[j], p) ELSE batches[j]
\* the step makes batch k, with p alone in it, and changes nothing else
Opened(p, k) ==
  /\ k \notin DOMAIN batches
  /\ DOMAIN batches' = DOMAIN batches \cup {k}
  /\ batches'[k] = <<p>>
  /\ \A j \in DOMAIN batches : batches'[j] = batches[j]
NewIndex(last) == IF last = {} THEN FirstBatch ELSE SetMax(last) + 1
GreedyStep(element, last) ==
  IF FitsLast(element[2], last)
  THEN \E k \in last : AppendedTo(element[1], k)
  ELSE Opened(element[1], NewIndex(last))
\* a pass of either scheduler loop
SchedulerPass == pc \in {"schedule", "x_schedule"} /\ sched' = sched + 1

\* the elements taken so far went to batches whose indices never go down and
\* go up by one at most
StepsOfOne ==
  \A i \in 1..Len(sorted_outdated_deps) :
    i < sched =>
      /\ BatchesOf(sorted_outdated_deps[i][1]) # {}
      /\ i > 1 =>
           \A k \in BatchesOf(sorted_outdated_deps[i - 1][1]) :
             \A n \in BatchesOf(sorted_outdated_deps[i][1]) : n - k \in {0, 1}

\* C11: in every pass of the scheduler loop of either script, the formula is
\* appended to the last batch exactly when there is a batch and the last one
\* holds none of the formula's outdated dependencies, and otherwise it opens
\* the batch after the last; no other batch changes, and along the sorted
\* order the batch indices never go down and go up by one at most
C11_GreedyPass ==
  /\ [][SchedulerPass => GreedyStep(sorted_outdated_deps[sched], LastBatch)]_vars
  /\ [](pc \in {"schedule", "x_schedule", "report", "done"} => StepsOfOne)

\* tap-updater.py has taken three formulae: the second was appended to the
\* batch the first opened, and the third, whose dependency is in that batch,
\* opened the next
C11_Witness ==
  /\ pc = "schedule" /\ sched = 4
  /\ DOMAIN batches = {1, 2}
  /\ Len(batches[1]) = 2 /\ Len(batches[2]) = 1
  /\ sorted_outdated_deps[3][2] # <<>>

(***************************************************************************)
(* The scheduler on four formulae: with --all the tap user/tap is named,   *)
(* the expander adds user/tap-extra/e, and `brew deps` answers chains,     *)
(* forks and joins over the four as well as relations that are not closed. *)
(***************************************************************************)
ClosedUnionOutputs == {"user/tap-extra/e\n"}
ClosedLivecheckOutputs == {"", "pkg : 1.2.3 ==> 1.2.4\n"}
ClosedDepsOutputs ==
  {"", "user/tap/a\n", "user/tap/b\n", "user/tap/a\nuser/tap/b\n",
   "user/tap/a\nuser/tap/b\nuser/tap/c\n"}
InitClosed == InitWith(ArgsOver({<<"user/tap">>}, {<<>>}, {TRUE}, {FALSE}))
NextClosed == NextWith(ClosedUnionOutputs, ClosedLivecheckOutputs, ClosedDepsOutputs)
SpecClosed == InitClosed /\ [][NextClosed]_vars

\* the outdated dependencies of q
OutdatedDepsOf(q) ==
  UNION {ListSet(sorted_outdated_deps[i][2]) : i \in PositionsOf(q)}
\* no formula depends on itself and the dependencies of a dependency are
\* dependencies (so there is no cycle)
ClosedAcyclic ==
  \A i \in 1..Len(sorted_outdated_deps) :
    /\ ~InList(sorted_outdated_deps[i][1], sorted_outdated_deps[i][2])
    /\ \A q \in ListSet(sorted_outdated_deps[i][2]) :
         OutdatedDepsOf(q) \subseteq ListSet(sorted_outdated_deps[i][2])

\* C12: once the scheduler has run on outdated dependencies that are acyclic
\* and transitively closed, every outdated dependency of a formula is in a
\* batch before the formula's batch, and every formula without outdated
\* dependencies is in batch 1
C12_ClosedIsSafe ==
  (SchedulerRan /\ ClosedAcyclic) =>
    \A i \in 1..Len(sorted_outdated_deps) :
      /\ BatchesOf(sorted_outdated_deps[i][1]) # {}
      /\ sorted_outdated_deps[i][2] = <<>> => BatchesOf(sorted_outdated_deps[i][1]) = {1}
      /\ \A q \in ListSet(sorted_outdated_deps[i][2]) :
           \A kp \in BatchesOf(sorted_outdated_deps[i][1]) :
             \A kq \in BatchesOf(q) : kq < kp

\* four outdated formulae, closed and acyclic, in three batches: two of them
\* share the middle batch and the last one depends on the three others
C12_Witness ==
  /\ pc = "done" /\ ClosedAcyclic
  /\ Len(sorted_outdated_deps) = 4
  /\ UsedBatches = {1, 2, 3}
  /\ Len(batches[2]) = 2
  /\ Len(sorted_outdated_deps[4][2]) = 3

====
